---- MODULE Spec2Model ----
\* Provident Fund interest ledger (pf_calculator.py).
\*
\* Money is held in paise (hundredths of a rupee) and the annual rate in
\* hundredths of a percent, the resolution of the "%.2f" input widgets.
\* The source computes in binary64.  Sums and differences of amounts are
\* taken exactly; the one place where a representation error of the last
\* bit becomes visible is the truncation int(raw_interest * 100): when the
\* exact product is a whole number of paise that has no exact binary form,
\* the float may lie just under it and one paisa less is stored.  That
\* outcome is kept as a choice (ulp) wherever binary64 can produce it.
EXTENDS Integers, Sequences, FiniteSets, TLC

VARIABLES
    pc,                     \* position in the script
    start_year,             \* line 51
    fy_months,              \* list built by get_fy_months
    rate_input,             \* line 52, hundredths of a percent
    opening_balance_input,  \* line 56, paise
    results,                \* rows appended by calculate_ledger
    current_bal,
    raw_interest,           \* last raw interest: [num, ulp]
    total_interest,
    sum_dep_b, sum_pflr_b, sum_dep_a, sum_pflr_a, sum_with,
    totals,
    final_principal,
    final_total_balance,
    alt,                    \* a second invocation, on an edited input
    vary                    \* the edit: which input differs, where, by how much

vars == <<pc, start_year, fy_months, rate_input, opening_balance_input,
          results, current_bal, raw_interest, total_interest,
          sum_dep_b, sum_pflr_b, sum_dep_a, sum_pflr_a, sum_with,
          totals, final_principal, final_total_balance, alt, vary>>

-----------------------------------------------------------------------------
\* Units and bounds

NumMonths == 12
RateUnit == 100
MonthsPerCent == 1200
DefaultYear == 2024

\* raw interest is kept as a numerator over RawDen, in paise
RawDen == MonthsPerCent * RateUnit

MaxActive == 2

Max(a, b) == IF a >= b THEN a ELSE b

\* int(x) of Python: the integer part, toward zero
IntPart(n, d) == IF n >= 0 THEN n \div d ELSE -((-n) \div d)

-----------------------------------------------------------------------------
\* get_fy_months

m_names == <<"APRIL", "MAY", "JUNE", "JULY", "AUGUST", "SEPTEMBER",
             "OCTOBER", "NOVEMBER", "DECEMBER", "JANUARY", "FEBRUARY", "MARCH">>

DigitChar == <<"0", "1", "2", "3", "4", "5", "6", "7", "8", "9">>

\* str(y): the decimal characters of an integer
RECURSIVE Str(_)
Str(n) ==
    IF n < 0 THEN <<"-">> \o Str(-n)
    ELSE IF n < 10 THEN <<DigitChar[n + 1]>>
    ELSE Append(Str(n \div 10), DigitChar[(n % 10) + 1])

\* s[-2:]: the last two characters, or all of them when there are fewer
LastTwo(s) == IF Len(s) <= 2 THEN s ELSE SubSeq(s, Len(s) - 1, Len(s))

RECURSIVE Join(_)
Join(s) == IF s = <<>> THEN "" ELSE Head(s) \o Join(Tail(s))

\* y of line 63; i counts from 0 as enumerate does
LabelYear(i, year) == IF i < 9 THEN year ELSE year + 1

\* the f-string of line 64
FyLabel(i, year) == m_names[i + 1] \o " " \o Join(LastTwo(Str(LabelYear(i, year))))

get_fy_months(year) == [n \in 1..Len(m_names) |-> FyLabel(n - 1, year)]

-----------------------------------------------------------------------------
\* calculate_ledger

InputRow(m, db, pb, da, pa, w) ==
    [Month |-> m, Dep_Before_15 |-> db, PFLR_Before_15 |-> pb,
     Dep_After_15 |-> da, PFLR_After_15 |-> pa, Withdrawal |-> w,
     Remarks |-> ""]

\* variant: every inflow of the month counted in the interest base
EffectiveDepositAll(row) ==
    row.Dep_Before_15 + row.PFLR_Before_15 + row.Dep_After_15 + row.PFLR_After_15

\* line 124
EffectiveDeposit(row) == row.Dep_Before_15 + row.PFLR_Before_15

\* line 125
LowestBalCalc(cur, row) == cur + EffectiveDeposit(row) - row.Withdrawal

\* variant: the floor of line 126 left out
LowestBalNoFloor(cur, row) == LowestBalCalc(cur, row)

\* line 126
LowestBal(cur, row) == Max(0, LowestBalCalc(cur, row))

\* variant: the widget's default rate used instead of the argument
RawNumDefaultRate(lowest_bal, rate) == lowest_bal * 710

\* (lowest_bal * rate) / 1200 as a numerator over RawDen
RawNum(lowest_bal, rate) == lowest_bal * rate

\* The float quotient can lie under the exact value only when that value is
\* a positive whole number of paise with no finite binary expansion
\* (q/100 is dyadic exactly when 25 divides q).
UlpPossible(num) ==
    IF num > 0 /\ num % RawDen = 0 /\ (num \div RawDen) % 25 # 0
    THEN BOOLEAN ELSE {FALSE}

RawInterest(lowest_bal, rate, ulp) == [num |-> RawNum(lowest_bal, rate), ulp |-> ulp]

\* variant: round(raw_interest, 2) instead of the truncation
InterestRounded(raw) == IntPart(2 * raw.num + RawDen, 2 * RawDen)

\* int(raw_interest * 100) / 100.0, in paise
Interest(raw) ==
    IF raw.ulp /\ raw.num % RawDen = 0
    THEN IntPart(raw.num, RawDen) - 1
    ELSE IntPart(raw.num, RawDen)

\* variant: the post-15th flows left out of the closing balance
ClosingBalNoPost(cur, row) ==
    cur + row.Dep_Before_15 + row.PFLR_Before_15 - row.Withdrawal

\* line 131
ClosingBal(cur, row) ==
    cur + row.Dep_Before_15 + row.Dep_After_15
        + row.PFLR_Before_15 + row.PFLR_After_15 - row.Withdrawal

\* variant: the opening column filled after the balance was advanced
LedgerRowOpeningIsClosing(cur, row, raw) ==
    ("Month" :> row.Month) @@
    ("Opening Balance" :> ClosingBal(cur, row)) @@
    ("Dep (<15th)" :> row.Dep_Before_15) @@
    ("PFLR (<15th)" :> row.PFLR_Before_15) @@
    ("Dep (>15th)" :> row.Dep_After_15) @@
    ("PFLR (>15th)" :> row.PFLR_After_15) @@
    ("Withdrawal" :> row.Withdrawal) @@
    ("Lowest Balance" :> LowestBal(cur, row)) @@
    ("Interest" :> Interest(raw)) @@
    ("Closing Balance" :> ClosingBal(cur, row)) @@
    ("Remarks" :> row.Remarks)

\* the dict appended at lines 133-145
LedgerRow(cur, row, raw) ==
    ("Month" :> row.Month) @@
    ("Opening Balance" :> cur) @@
    ("Dep (<15th)" :> row.Dep_Before_15) @@
    ("PFLR (<15th)" :> row.PFLR_Before_15) @@
    ("Dep (>15th)" :> row.Dep_After_15) @@
    ("PFLR (>15th)" :> row.PFLR_After_15) @@
    ("Withdrawal" :> row.Withdrawal) @@
    ("Lowest Balance" :> LowestBal(cur, row)) @@
    ("Interest" :> Interest(raw)) @@
    ("Closing Balance" :> ClosingBal(cur, row)) @@
    ("Remarks" :> row.Remarks)

\* variant: the month's interest compounded into the balance
NextBalCompound(closing_bal, interest) == closing_bal + interest

\* line 147: the balance carried into the next month
NextBal(closing_bal, interest) == closing_bal

\* variant: = written for +=
AddInterestOverwrite(total, interest) == interest

\* line 148
AddInterest(total, interest) == total + interest

\* lines 151-155
Totals(db, pb, da, pa, w, ti) ==
    ("Dep (<15th)" :> db) @@ ("PFLR (<15th)" :> pb) @@
    ("Dep (>15th)" :> da) @@ ("PFLR (>15th)" :> pa) @@
    ("Withdrawal" :> w) @@ ("Interest" :> ti)

\* variant: the interest left out of the grand total
FinalTotalBalancePrincipalOnly(principal, tot) == principal

\* line 394
FinalTotalBalance(principal, tot) == principal + tot["Interest"]

-----------------------------------------------------------------------------
\* Inputs

OpeningSet == {0, 50000}
RateSet == {0, 710, 800}

ZeroFlows == [db |-> 0, pb |-> 0, da |-> 0, pa |-> 0, w |-> 0]

\* the rows a user edits away from the all-zero default
ActiveFlows ==
    { [db |-> 100000, pb |-> 0,     da |-> 0,     pa |-> 0,     w |-> 0],
      [db |-> 0,      pb |-> 0,     da |-> 0,     pa |-> 0,     w |-> 150000],
      [db |-> 0,      pb |-> 0,     da |-> 50000, pa |-> 25000, w |-> 0],
      [db |-> 46150,  pb |-> 50000, da |-> 0,     pa |-> 0,     w |-> 20000],
      [db |-> 0,      pb |-> 30000, da |-> 20000, pa |-> 0,     w |-> 10000] }

IsActive(r) ==
    r["Dep (<15th)"] + r["PFLR (<15th)"] + r["Dep (>15th)"]
        + r["PFLR (>15th)"] + r["Withdrawal"] > 0

RECURSIVE ActiveCount(_)
ActiveCount(rows) ==
    IF rows = <<>> THEN 0
    ELSE (IF IsActive(Head(rows)) THEN 1 ELSE 0) + ActiveCount(Tail(rows))

FlowChoices(rows, flows) ==
    IF ActiveCount(rows) < MaxActive THEN flows \cup {ZeroFlows} ELSE {ZeroFlows}

MonthRow(n, f) == InputRow(get_fy_months(DefaultYear)[n], f.db, f.pb, f.da, f.pa, f.w)

-----------------------------------------------------------------------------
\* One invocation of calculate_ledger, stepped through its loop

NoRaw == [num |-> 0, ulp |-> FALSE]
NoTotals == <<>>

\* the locals of calculate_ledger after lines 103-107
StartRun(opening_bal) ==
    [results |-> <<>>, current_bal |-> opening_bal, raw_interest |-> NoRaw,
     total_interest |-> 0,
     sum_dep_b |-> 0, sum_pflr_b |-> 0, sum_dep_a |-> 0,
     sum_pflr_a |-> 0, sum_with |-> 0]

\* the loop body, lines 110-148
LoopBody(st, row, rate, ulp) ==
    LET raw == RawInterest(LowestBal(st.current_bal, row), rate, ulp)
        out == LedgerRow(st.current_bal, row, raw)
    IN  [results |-> Append(st.results, out),
         current_bal |-> NextBal(out["Closing Balance"], out["Interest"]),
         raw_interest |-> raw,
         total_interest |-> AddInterest(st.total_interest, out["Interest"]),
         sum_dep_b |-> st.sum_dep_b + row.Dep_Before_15,
         sum_pflr_b |-> st.sum_pflr_b + row.PFLR_Before_15,
         sum_dep_a |-> st.sum_dep_a + row.Dep_After_15,
         sum_pflr_a |-> st.sum_pflr_a + row.PFLR_After_15,
         sum_with |-> st.sum_with + row.Withdrawal]

\* lines 151-155, from the locals
RunTotals(st) ==
    Totals(st.sum_dep_b, st.sum_pflr_b, st.sum_dep_a, st.sum_pflr_a,
           st.sum_with, st.total_interest)

\* The arithmetic is deterministic: the same balance at the same rate gives
\* the same interest every time it is computed.
Observed(rows, rate) ==
    { <<rows[j]["Lowest Balance"], rate, rows[j]["Interest"]>> : j \in DOMAIN rows }

UlpChoices(obs, lowest_bal, rate) ==
    { u \in UlpPossible(RawNum(lowest_bal, rate)) :
        \A o \in obs : (o[1] = lowest_bal /\ o[2] = rate)
                          => o[3] = Interest(RawInterest(lowest_bal, rate, u)) }

Locals ==
    [results |-> results, current_bal |-> current_bal,
     raw_interest |-> raw_interest, total_interest |-> total_interest,
     sum_dep_b |-> sum_dep_b, sum_pflr_b |-> sum_pflr_b,
     sum_dep_a |-> sum_dep_a, sum_pflr_a |-> sum_pflr_a, sum_with |-> sum_with]

NoAlt == [run |-> StartRun(0), rate |-> 0, totals |-> NoTotals, final_principal |-> 0]
NoVary == [kind |-> "none", month |-> 0, inc |-> 0]

InitLedger ==
    /\ rate_input \in RateSet
    /\ opening_balance_input \in OpeningSet
    /\ results = <<>>
    /\ current_bal = opening_balance_input
    /\ raw_interest = NoRaw
    /\ total_interest = 0
    /\ sum_dep_b = 0 /\ sum_pflr_b = 0 /\ sum_dep_a = 0
    /\ sum_pflr_a = 0 /\ sum_with = 0
    /\ totals = NoTotals
    /\ final_principal = 0
    /\ final_total_balance = 0

Init ==
    /\ pc = "loop"
    /\ start_year = DefaultYear
    /\ fy_months = get_fy_months(DefaultYear)
    /\ InitLedger
    /\ alt = NoAlt
    /\ vary = NoVary

SetLocals(st) ==
    /\ results' = st.results
    /\ current_bal' = st.current_bal
    /\ raw_interest' = st.raw_interest
    /\ total_interest' = st.total_interest
    /\ sum_dep_b' = st.sum_dep_b
    /\ sum_pflr_b' = st.sum_pflr_b
    /\ sum_dep_a' = st.sum_dep_a
    /\ sum_pflr_a' = st.sum_pflr_a
    /\ sum_with' = st.sum_with

\* one pass of the for loop of line 109
Iterate ==
    /\ pc = "loop"
    /\ Len(results) < NumMonths
    /\ \E f \in FlowChoices(results, ActiveFlows) :
         LET row == MonthRow(Len(results) + 1, f)
             low == LowestBal(current_bal, row)
         IN  \E ulp \in UlpChoices(Observed(results, rate_input), low, rate_input) :
                SetLocals(LoopBody(Locals, row, rate_input, ulp))
    /\ UNCHANGED <<pc, start_year, fy_months, rate_input, opening_balance_input,
                   totals, final_principal, final_total_balance, alt, vary>>

\* lines 150-158
Return ==
    /\ pc = "loop"
    /\ Len(results) = NumMonths
    /\ totals' = RunTotals(Locals)
    /\ final_principal' = current_bal
    /\ pc' = "returned"
    /\ UNCHANGED <<start_year, fy_months, rate_input, opening_balance_input,
                   results, current_bal, raw_interest, total_interest,
                   sum_dep_b, sum_pflr_b, sum_dep_a, sum_pflr_a, sum_with,
                   final_total_balance, alt, vary>>

\* line 394
Summary ==
    /\ pc = "returned"
    /\ final_total_balance' = FinalTotalBalance(final_principal, totals)
    /\ pc' = "done"
    /\ UNCHANGED <<start_year, fy_months, rate_input, opening_balance_input,
                   results, current_bal, raw_interest, total_interest,
                   sum_dep_b, sum_pflr_b, sum_dep_a, sum_pflr_a, sum_with,
                   totals, final_principal, alt, vary>>

Next == Iterate \/ Return \/ Summary

Spec == Init /\ [][Next]_vars

-----------------------------------------------------------------------------
\* Two invocations side by side: the script reruns calculate_ledger on every
\* edit, so the second run sees the first run's input with one cell or the
\* rate changed.

PairFlows ==
    { [db |-> 76150, pb |-> 50000, da |-> 0,     pa |-> 0, w |-> 0],
      [db |-> 0,     pb |-> 0,     da |-> 20000, pa |-> 0, w |-> 150000] }

IncSet == {10000}

VarySet ==
    { [kind |-> "post15", month |-> k, inc |-> d] : k \in 1..NumMonths, d \in IncSet }
    \cup { [kind |-> "rate", month |-> 0, inc |-> d] : d \in {-10, 90} }

\* the edited row of the second run
EditedRow(row, n, v) ==
    IF v.kind = "post15" /\ v.month = n
    THEN [row EXCEPT !.Dep_After_15 = @ + v.inc]
    ELSE row

EditedRate(rate, v) == IF v.kind = "rate" THEN rate + v.inc ELSE rate

InitPair ==
    /\ pc = "pair"
    /\ start_year = DefaultYear
    /\ fy_months = get_fy_months(DefaultYear)
    /\ InitLedger
    /\ vary \in VarySet
    /\ EditedRate(rate_input, vary) >= 0
    /\ alt = [run |-> StartRun(opening_balance_input),
              rate |-> EditedRate(rate_input, vary),
              totals |-> NoTotals, final_principal |-> 0]

PairIterate ==
    /\ pc = "pair"
    /\ Len(results) < NumMonths
    /\ \E f \in FlowChoices(results, PairFlows) :
         LET n == Len(results) + 1
             row == MonthRow(n, f)
             row2 == EditedRow(row, n, vary)
             low == LowestBal(current_bal, row)
             low2 == LowestBal(alt.run.current_bal, row2)
             seen == Observed(results, rate_input)
                        \cup Observed(alt.run.results, alt.rate)
         IN  \E ulp \in UlpChoices(seen, low, rate_input) :
                LET st == LoopBody(Locals, row, rate_input, ulp)
                    seen2 == seen \cup Observed(st.results, rate_input)
                IN  \E ulp2 \in UlpChoices(seen2, low2, alt.rate) :
                       /\ SetLocals(st)
                       /\ alt' = [alt EXCEPT !.run = LoopBody(@, row2, alt.rate, ulp2)]
    /\ UNCHANGED <<pc, start_year, fy_months, rate_input, opening_balance_input,
                   totals, final_principal, final_total_balance, vary>>

PairReturn ==
    /\ pc = "pair"
    /\ Len(results) = NumMonths
    /\ totals' = RunTotals(Locals)
    /\ final_principal' = current_bal
    /\ alt' = [alt EXCEPT !.totals = RunTotals(alt.run),
                          !.final_principal = alt.run.current_bal]
    /\ pc' = "pair_done"
    /\ UNCHANGED <<start_year, fy_months, rate_input, opening_balance_input,
                   results, current_bal, raw_interest, total_interest,
                   sum_dep_b, sum_pflr_b, sum_dep_a, sum_pflr_a, sum_with,
                   final_total_balance, vary>>

NextPair == PairIterate \/ PairReturn

SpecPair == InitPair /\ [][NextPair]_vars

-----------------------------------------------------------------------------
\* get_fy_months stepped through its loop, for any start year

YearSet == {5, 10, 99, 100, 1999, 2000, 2024, 2099}

InitMonths ==
    /\ pc = "months"
    /\ start_year \in YearSet
    /\ fy_months = <<>>
    /\ rate_input = 710
    /\ opening_balance_input = 0
    /\ results = <<>>
    /\ current_bal = 0
    /\ raw_interest = NoRaw
    /\ total_interest = 0
    /\ sum_dep_b = 0 /\ sum_pflr_b = 0 /\ sum_dep_a = 0
    /\ sum_pflr_a = 0 /\ sum_with = 0
    /\ totals = NoTotals
    /\ final_principal = 0
    /\ final_total_balance = 0
    /\ alt = NoAlt
    /\ vary = NoVary

\* lines 62-64
AppendLabel ==
    /\ pc = "months"
    /\ Len(fy_months) < Len(m_names)
    /\ fy_months' = Append(fy_months, FyLabel(Len(fy_months), start_year))
    /\ UNCHANGED <<pc, start_year, rate_input, opening_balance_input,
                   results, current_bal, raw_interest, total_interest,
                   sum_dep_b, sum_pflr_b, sum_dep_a, sum_pflr_a, sum_with,
                   totals, final_principal, final_total_balance, alt, vary>>

\* line 65
ReturnMonths ==
    /\ pc = "months"
    /\ Len(fy_months) = Len(m_names)
    /\ pc' = "months_done"
    /\ UNCHANGED <<start_year, fy_months, rate_input, opening_balance_input,
                   results, current_bal, raw_interest, total_interest,
                   sum_dep_b, sum_pflr_b, sum_dep_a, sum_pflr_a, sum_with,
                   totals, final_principal, final_total_balance, alt, vary>>

NextMonths == AppendLabel \/ ReturnMonths

SpecMonths == InitMonths /\ [][NextMonths]_vars

-----------------------------------------------------------------------------
\* Properties

Rows == 1..Len(results)
Returned == pc \in {"returned", "done"}

RECURSIVE ColumnSum(_, _)
ColumnSum(rows, col) ==
    IF rows = <<>> THEN 0 ELSE Head(rows)[col] + ColumnSum(Tail(rows), col)

FlowColumns == {"Dep (<15th)", "PFLR (<15th)", "Dep (>15th)", "PFLR (>15th)", "Withdrawal"}

\* interest is the integer part of num/RawDen paise as binary64 yields it
IsTruncationOf(interest, num) ==
    \/ interest = num \div RawDen
    \/ num > 0 /\ num % RawDen = 0 /\ interest = (num \div RawDen) - 1

\* C1 Continuity: the first row opens at the supplied opening balance, every
\* later row opens at the previous row's closing balance, and the returned
\* final balance is the last row's closing balance.
Continuity ==
    /\ \A i \in Rows :
         results[i]["Opening Balance"] =
            IF i = 1 THEN opening_balance_input ELSE results[i - 1]["Closing Balance"]
    /\ Returned =>
         /\ Len(results) = NumMonths
         /\ final_principal = results[NumMonths]["Closing Balance"]

ContinuityWitness ==
    /\ pc = "returned"
    /\ results[NumMonths]["Opening Balance"] # opening_balance_input
    /\ results[NumMonths]["Closing Balance"] # results[NumMonths]["Opening Balance"]

\* C2 Interest-base floor: each row's Lowest Balance is
\* max(0, opening + deposit_pre15 + pflr_pre15 - withdrawal), hence never
\* negative, also when the month is overdrawn or opens below zero.
LowestBalanceFloor ==
    \A i \in Rows :
        LET r == results[i]
            base == r["Opening Balance"] + r["Dep (<15th)"] + r["PFLR (<15th)"]
                        - r["Withdrawal"]
        IN  /\ r["Lowest Balance"] = (IF base > 0 THEN base ELSE 0)
            /\ r["Lowest Balance"] >= 0

LowestBalanceFloorWitness ==
    /\ \E i \in Rows :
         /\ results[i]["Withdrawal"] > results[i]["Opening Balance"]
                + results[i]["Dep (<15th)"] + results[i]["PFLR (<15th)"]
         /\ results[i]["Opening Balance"] >= 0
         /\ results[i]["Lowest Balance"] = 0
    /\ \E j \in Rows :
         /\ results[j]["Opening Balance"] < 0
         /\ results[j]["Lowest Balance"] = 0

ClosingBalanceFormula ==
    \A i \in Rows :
        LET r == results[i]
        IN  r["Closing Balance"] =
                r["Opening Balance"] + r["Dep (<15th)"] + r["Dep (>15th)"]
                    + r["PFLR (<15th)"] + r["PFLR (>15th)"] - r["Withdrawal"]

ClosingBalanceWitness ==
    /\ \E i \in Rows :
         /\ results[i]["Dep (>15th)"] > 0
         /\ results[i]["PFLR (>15th)"] > 0
         /\ results[i]["Interest"] > 0
    /\ \E j \in Rows : results[j]["Closing Balance"] < 0

\* C5 Totals consistency: the returned totals hold, for Interest and for each
\* of the five flow columns, the sum of that column over the twelve rows, and
\* nothing else.
TotalsConsistency ==
    Returned =>
        /\ DOMAIN totals = FlowColumns \cup {"Interest"}
        /\ Len(results) = NumMonths
        /\ \A c \in DOMAIN totals : totals[c] = ColumnSum(results, c)

TotalsWitness ==
    /\ pc = "returned"
    /\ totals["Interest"] > results[NumMonths]["Interest"]
    /\ results[NumMonths]["Interest"] > 0
    /\ totals["Withdrawal"] > 0
    /\ totals["Dep (>15th)"] > 0

\* C6 Post-15th exclusion: when the second run differs only by a larger
\* deposit_post15 in month k, the rows before k are the same, month k has the
\* same Lowest Balance and Interest, and month k's Closing Balance and every
\* later Opening Balance are larger by exactly the increase.
PostFifteenthExclusion ==
    vary.kind = "post15" =>
        /\ Len(alt.run.results) = Len(results)
        /\ \A i \in Rows :
             LET a == results[i]
                 b == alt.run.results[i]
             IN  /\ i < vary.month => b = a
                 /\ i = vary.month =>
                      /\ b["Lowest Balance"] = a["Lowest Balance"]
                      /\ b["Interest"] = a["Interest"]
                      /\ b["Opening Balance"] = a["Opening Balance"]
                      /\ b["Dep (>15th)"] = a["Dep (>15th)"] + vary.inc
                      /\ b["Closing Balance"] = a["Closing Balance"] + vary.inc
                 /\ i > vary.month =>
                      b["Opening Balance"] = a["Opening Balance"] + vary.inc

PostFifteenthWitness ==
    /\ pc = "pair_done"
    /\ vary.kind = "post15"
    /\ vary.month = 3
    /\ results[3]["Interest"] > 0
    /\ results[3]["Dep (<15th)"] > 0
    /\ alt.run.results[4]["Interest"] > results[4]["Interest"]

ScenarioInput ==
    /\ opening_balance_input = 0
    /\ rate_input = 710
    /\ Len(results) = NumMonths
    /\ \A i \in Rows :
         /\ results[i]["Dep (<15th)"] = (IF i <= 2 THEN 100000 ELSE 0)
         /\ results[i]["PFLR (<15th)"] = 0
         /\ results[i]["Dep (>15th)"] = 0
         /\ results[i]["PFLR (>15th)"] = 0
         /\ results[i]["Withdrawal"] = 0

ScenarioFirstTwoMonths ==
    /\ results[1]["Lowest Balance"] = 100000
    /\ results[1]["Interest"] = 591
    /\ results[1]["Closing Balance"] = 100000
    /\ results[2]["Opening Balance"] = 100000
    /\ results[2]["Lowest Balance"] = 200000
    /\ results[2]["Interest"] = 1183
    /\ results[2]["Closing Balance"] = 200000

TwoDigits(n) == DigitChar[(n \div 10) + 1] \o DigitChar[(n % 10) + 1]

\* C9 Month labeling: twelve labels APRIL..MARCH, the first nine with the
\* start year and the last three with the next, each "MONTHNAME YY" with YY
\* the two-digit form of the year's last two digits.
MonthLabels ==
    /\ \A n \in 1..Len(fy_months) :
         fy_months[n] =
            m_names[n] \o " " \o
                TwoDigits((IF n <= 9 THEN start_year ELSE start_year + 1) % 100)
    /\ pc = "months_done" => Len(fy_months) = 12

\* C10 Principal conservation: interest is never compounded, so the final
\* principal is opening + all deposits - all withdrawals whatever the rate,
\* and may be negative while every Lowest Balance and Interest is >= 0.
PrincipalConservation ==
    /\ Returned =>
         final_principal =
            opening_balance_input + totals["Dep (<15th)"] + totals["PFLR (<15th)"]
                + totals["Dep (>15th)"] + totals["PFLR (>15th)"] - totals["Withdrawal"]
    /\ \A i \in Rows :
         results[i]["Lowest Balance"] >= 0 /\ results[i]["Interest"] >= 0

PrincipalConservationWitness ==
    /\ pc = "returned"
    /\ final_principal < 0
    /\ rate_input > 0
    /\ totals["Interest"] > 0
    /\ \E i \in Rows : results[i]["Opening Balance"] < 0

====
